---- MODULE Spec2Model ----
\* A model of dumb_html_splitter: the tokenizer, TokenGroup (push/pop with the
\* empty-tag collapse, the open->close map, wrap, subdivide) and split.
\* Strings are sequences of characters; every length and index is in BYTES,
\* as in the Rust source (str::len, byte offsets of slices).
EXTENDS Integers, Sequences, FiniteSets, TLC

\* ---------------------------------------------------------------- characters

\* Two characters that are wider than one byte in UTF-8.
CH2 == "U+00E9"      \* e-acute, 2 bytes
CH4 == "U+1F44D"     \* thumbs-up emoji, 4 bytes

\* char::len_utf8
len_utf8(ch) == IF ch = CH2 THEN 2 ELSE IF ch = CH4 THEN 4 ELSE 1

\* char::is_whitespace
is_whitespace(ch) == ch \in {" ", "\n", "\t"}

\* str::len: the byte length of a string
RECURSIVE str_len(_)
str_len(s) == IF s = <<>> THEN 0 ELSE len_utf8(Head(s)) + str_len(Tail(s))

\* str::find(ch): the (1-based) position of the first ch in s, 0 when absent
RECURSIVE str_find_from(_, _, _)
str_find_from(s, ch, i) ==
    IF i > Len(s) THEN 0
    ELSE IF s[i] = ch THEN i
    ELSE str_find_from(s, ch, i + 1)

str_find(s, ch) == str_find_from(s, ch, 1)

\* the concatenation of a sequence of strings
RECURSIVE Concat(_)
Concat(ss) == IF ss = <<>> THEN <<>> ELSE Head(ss) \o Concat(Tail(ss))

Last(s) == s[Len(s)]
Front(s) == SubSeq(s, 1, Len(s) - 1)

\* ---------------------------------------------------------------- token.rs

\* enum Token { OpenTag(&str, usize), CloseTag(&str, usize), Text(&str, usize) }
Token(kind, text, index) == [kind |-> kind, text |-> text, index |-> index]

as_text(token) == token.text
is_close(token) == token.kind = "CloseTag"
is_open(token) == token.kind = "OpenTag"
token_len(token) == str_len(as_text(token))
token_index(token) == token.index

\* Token::len_since: end offset of self minus start offset of start
len_since(self, start) == token_index(self) + token_len(self) - token_index(start)

\* The character patterns the source trims by: a char, or a closure on chars.
pattern_matches(pat, ch) ==
    CASE pat = "is_whitespace"  -> is_whitespace(ch)
      [] pat = "!is_whitespace" -> ~is_whitespace(ch)
      [] OTHER                  -> ch = pat

\* str::trim_start_matches / trim_end_matches / trim
RECURSIVE trim_start_matches(_, _)
trim_start_matches(s, pat) ==
    IF s # <<>> /\ pattern_matches(pat, Head(s))
    THEN trim_start_matches(Tail(s), pat) ELSE s

RECURSIVE trim_end_matches(_, _)
trim_end_matches(s, pat) ==
    IF s # <<>> /\ pattern_matches(pat, Last(s))
    THEN trim_end_matches(Front(s), pat) ELSE s

trim(s) == trim_end_matches(trim_start_matches(s, "is_whitespace"), "is_whitespace")

\* split_whitespace().next(): the first whitespace-delimited word, <<>> if none
first_word(s) ==
    LET t == trim_start_matches(s, "is_whitespace")
        RECURSIVE word(_)
        word(u) == IF u = <<>> \/ is_whitespace(Head(u)) THEN <<>>
                   ELSE <<Head(u)>> \o word(Tail(u))
    IN  word(t)

\* Token::tag_name (<<>> stands for the panic of unwrap() on a tag without a name)
tag_name(token) ==
    IF token.kind = "Text" THEN <<>>
    ELSE first_word(
           trim_start_matches(
             trim(trim_end_matches(trim_start_matches(trim(token.text), "<"), ">")),
             "/"))

\* ---------------------------------------------------------------- tokenizer.rs

\* The tag classification of Tokenizer::next: the first non-whitespace character
\* after '<' is '/'.
tag_is_close(tag) ==
    LET rest == trim_start_matches(Tail(tag), "is_whitespace")
    IN  rest # <<>> /\ Head(rest) = "/"

\* Tokenizer: the tokens of text, from byte offset index on. panic is the
\* expect("missing close bracket") of a '<' with no '>' after it.
RECURSIVE Tokenizer(_, _)
Tokenizer(text, index) ==
    IF text = <<>> THEN [panic |-> FALSE, tokens |-> <<>>]
    ELSE LET open_pos == str_find(text, "<")
         IN  IF open_pos = 0
             THEN [panic |-> FALSE, tokens |-> <<Token("Text", text, index)>>]
             ELSE IF open_pos # 1
             THEN LET piece == SubSeq(text, 1, open_pos - 1)
                      rest  == Tokenizer(SubSeq(text, open_pos, Len(text)),
                                         index + str_len(piece))
                  IN  [panic  |-> rest.panic,
                       tokens |-> <<Token("Text", piece, index)>> \o rest.tokens]
             ELSE LET close_pos == str_find_from(text, ">", 2)
                  IN  IF close_pos = 0
                      THEN [panic |-> TRUE, tokens |-> <<>>]
                      ELSE LET tag  == SubSeq(text, 1, close_pos)
                               kind == IF tag_is_close(tag) THEN "CloseTag" ELSE "OpenTag"
                               rest == Tokenizer(SubSeq(text, close_pos + 1, Len(text)),
                                                 index + str_len(tag))
                           IN  [panic  |-> rest.panic,
                                tokens |-> <<Token(kind, tag, index)>> \o rest.tokens]

\* ---------------------------------------------------------------- ext.rs

\* Option<&str>, and the panic of slicing a str off a character boundary
Some(v) == [kind |-> "Some", value |-> v]
None == [kind |-> "None", value |-> <<>>]
SlicePanic == [kind |-> "Panic", value |-> <<>>]

\* the number of leading characters of s that fit in max_len bytes
RECURSIVE chars_within(_, _)
chars_within(s, max_len) ==
    IF s = <<>> \/ len_utf8(Head(s)) > max_len THEN 0
    ELSE 1 + chars_within(Tail(s), max_len - len_utf8(Head(s)))

\* utf8_substring with the empty prefix where no character fits
utf8_substring_or_empty(s, max_len) ==
    IF max_len = 0 \/ s = <<>> THEN Some(<<>>)
    ELSE Some(SubSeq(s, 1, chars_within(s, max_len)))

\* SplitPosExt::utf8_substring
utf8_substring(s, max_len) ==
    IF max_len = 0 \/ s = <<>> THEN Some(<<>>)
    ELSE LET n == chars_within(s, max_len)
         IN  IF n = 0 THEN None ELSE Some(SubSeq(s, 1, n))

\* &s[..n]: the first n bytes of s; a panic when byte n is inside a character
\* or past the end
byte_prefix(s, n) ==
    LET k == chars_within(s, n)
        p == SubSeq(s, 1, k)
    IN  IF str_len(p) = n THEN Some(p) ELSE SlicePanic

\* the slice that takes no byte off
byte_suffix_keeping(s, n) == Some(s)

\* &s[n..]: s without its first n bytes
byte_suffix(s, n) ==
    LET k == chars_within(s, n)
    IN  IF str_len(SubSeq(s, 1, k)) = n THEN Some(SubSeq(s, k + 1, Len(s)))
        ELSE SlicePanic

\* the split without the raw cut: nothing when no blank ends the prefix
split_without_raw_cut(s, max_len) ==
    IF max_len >= str_len(s) THEN Some(s)
    ELSE LET sub == utf8_substring(s, max_len)
         IN  IF sub.kind = "None" THEN None
             ELSE LET trimmed == trim_end_matches(sub.value, "!is_whitespace")
                  IN  IF trimmed = <<>> THEN None ELSE Some(trimmed)

\* SplitPosExt::split_with_respect_to_whitespace
split_with_respect_to_whitespace(s, max_len) ==
    IF max_len >= str_len(s) THEN Some(s)
    ELSE LET sub == utf8_substring(s, max_len)
         IN  IF sub.kind = "None" THEN None
             ELSE LET trimmed == trim_end_matches(sub.value, "!is_whitespace")
                  IN  IF trimmed = <<>> THEN byte_prefix(s, max_len)
                      ELSE Some(trimmed)

\* ---------------------------------------------------------------- token_group.rs

\* struct TokenGroup { tokens, len }; TokenGroup::default()
TokenGroup(tokens, len) == [tokens |-> tokens, len |-> len]
default_group == TokenGroup(<<>>, 0)

\* TokenGroup::pop
pop(g) ==
    IF g.tokens = <<>> THEN g
    ELSE TokenGroup(Front(g.tokens), g.len - token_len(Last(g.tokens)))

\* push with the collapse taken whenever a close tag meets a non-empty group,
\* whatever its last token is
push_collapsing_after_any(g, token) ==
    IF is_close(token) /\ g.tokens # <<>>
    THEN pop(g)
    ELSE TokenGroup(Append(g.tokens, token), g.len + token_len(token))

\* push that keeps empty pairs
push_without_collapse(g, token) ==
    TokenGroup(Append(g.tokens, token), g.len + token_len(token))

\* TokenGroup::push, with the empty-tag collapse
push(g, token) ==
    IF is_close(token) /\ g.tokens # <<>> /\ is_open(Last(g.tokens))
    THEN pop(g)
    ELSE TokenGroup(Append(g.tokens, token), g.len + token_len(token))

\* pushing the tokens of a sequence in order
RECURSIVE push_all(_, _)
push_all(g, tokens) ==
    IF tokens = <<>> THEN g ELSE push_all(push(g, Head(tokens)), Tail(tokens))

\* HashMap::new / entry(open).or_insert(close)
empty_map == [t \in {} |-> t]
or_insert(m, k, v) == IF k \in DOMAIN m THEN m ELSE m @@ (k :> v)

\* TokenGroup::prepare_open_close_map: err with the offending close tag on a
\* stack underflow; opens left on the stack are no error here
RECURSIVE open_close_map_from(_, _, _)
open_close_map_from(tokens, st, m) ==
    IF tokens = <<>> THEN [err |-> FALSE, token |-> <<>>, map |-> m]
    ELSE LET token == Head(tokens)
         IN  CASE is_open(token) ->
                    open_close_map_from(Tail(tokens), Append(st, token), m)
               [] is_close(token) ->
                    IF st = <<>> THEN [err |-> TRUE, token |-> token, map |-> m]
                    ELSE open_close_map_from(Tail(tokens), Front(st),
                                             or_insert(m, Last(st), token))
               [] OTHER -> open_close_map_from(Tail(tokens), st, m)

prepare_open_close_map(g) == open_close_map_from(g.tokens, <<>>, empty_map)

\* TokenGroup::get_close_token_index (1-based; 0 stands for UnbalancedToken)
get_close_token_index(g, open_token_index, m) ==
    LET close_token == m[g.tokens[open_token_index]]
        RECURSIVE find(_)
        find(i) == IF i > Len(g.tokens) THEN 0
                   ELSE IF g.tokens[i] = close_token THEN i
                   ELSE find(i + 1)
    IN  find(open_token_index)

\* the close tags of the stack, innermost first
RECURSIVE closes_of(_, _)
closes_of(st, m) ==
    IF st = <<>> THEN <<>> ELSE <<m[Last(st)]>> \o closes_of(Front(st), m)

\* the close tags of the stack appended as they are, with no collapse
RECURSIVE append_all(_, _)
append_all(g, tokens) ==
    IF tokens = <<>> THEN g
    ELSE append_all(TokenGroup(Append(g.tokens, Head(tokens)),
                               g.len + token_len(Head(tokens))), Tail(tokens))

close_from_stack_appending(g, st, m) == append_all(g, closes_of(st, m))

\* TokenGroup::close_from_stack
close_from_stack(g, st, m) == push_all(g, closes_of(st, m))

\* TokenGroup::open_from_stack
open_from_stack(g, st) == push_all(g, st)

\* TokenGroup::new_from_stack
new_from_stack(st) == open_from_stack(default_group, st)

\* TokenGroup::wrap: the stack's opens, the tokens first..last, the stack's closes
wrap(g, first, last, st, m) ==
    close_from_stack(push_all(open_from_stack(default_group, st),
                              SubSeq(g.tokens, first, last)), st, m)

\* TokenGroup::is_all_open
is_all_open(g) == \A i \in 1..Len(g.tokens) : is_open(g.tokens[i])

\* TokenGroup::from_string
from_string(html) ==
    LET t == Tokenizer(html, 0)
    IN  [panic |-> t.panic, group |-> push_all(default_group, t.tokens)]

\* Display for TokenGroup: the token slices in order
RECURSIVE tokens_to_string(_)
tokens_to_string(tokens) ==
    IF tokens = <<>> THEN <<>>
    ELSE as_text(Head(tokens)) \o tokens_to_string(Tail(tokens))

to_string(g) == tokens_to_string(g.tokens)

\* ---------------------------------------------------------------- error.rs

\* Result values: Ok(v), Err(SplitError::variant(v)), and an abort by panic
Ok(v) == [kind |-> "Ok", variant |-> "", value |-> v]
Err(variant, v) == [kind |-> "Err", variant |-> variant, value |-> v]
Panic == [kind |-> "Panic", variant |-> "", value |-> <<>>]
NoResult == [kind |-> "None", variant |-> "", value |-> <<>>]

\* ---------------------------------------------------------------- lib.rs

\* the loop over the tokens without the reset of the group after it is emitted
RECURSIVE group_tokens_without_reset(_, _, _, _)
group_tokens_without_reset(tokens, st, token_group, token_groups) ==
    IF tokens = <<>>
    THEN IF st # <<>> THEN Err("UnbalancedToken", Last(st)) ELSE Ok(token_groups)
    ELSE LET token == Head(tokens)
             g     == push(token_group, token)
         IN  IF is_close(token) /\ st = <<>>
             THEN Err("UnbalancedToken", token)
             ELSE LET st2 == CASE is_open(token)  -> Append(st, token)
                               [] is_close(token) -> Front(st)
                               [] OTHER           -> st
                  IN  group_tokens_without_reset(
                          Tail(tokens), st2, g,
                          IF st2 = <<>> THEN Append(token_groups, g) ELSE token_groups)

\* prepare_token_groups: the loop over the tokens
RECURSIVE group_tokens(_, _, _, _)
group_tokens(tokens, st, token_group, token_groups) ==
    IF tokens = <<>>
    THEN IF st # <<>> THEN Err("UnbalancedToken", Last(st)) ELSE Ok(token_groups)
    ELSE LET token == Head(tokens)
             g     == push(token_group, token)
         IN  IF is_close(token) /\ st = <<>>
             THEN Err("UnbalancedToken", token)
             ELSE LET st2 == CASE is_open(token)  -> Append(st, token)
                               [] is_close(token) -> Front(st)
                               [] OTHER           -> st
                  IN  IF st2 = <<>>
                      THEN group_tokens(Tail(tokens), st2, default_group,
                                        Append(token_groups, g))
                      ELSE group_tokens(Tail(tokens), st2, g, token_groups)

\* prepare_token_groups. The tokenizer is lazy: a close tag without an open one
\* returns the error before a later '<' without '>' is reached.
prepare_token_groups(html) ==
    LET t == Tokenizer(html, 0)
        r == group_tokens(t.tokens, <<>>, default_group, <<>>)
    IN  IF t.panic
        THEN IF r.kind = "Err" /\ is_close(r.value) THEN r ELSE Panic
        ELSE r

\* ---------------------------------------------------------------- inputs

\* tag names of the no-split sets
NAME_A ==
    <<"a">>

NAME_N ==
    <<"n">>

NAME_NO_SPLIT_TAG ==
    <<"n", "o", "_", "s", "p", "l", "i", "t", "_", "t", "a", "g">>

NAME_NO_SPLIT_OUTER ==
    <<"n", "o", "_", "s", "p", "l", "i", "t", "_", "o", "u", "t", "e", "r">>

NAME_NO_SPLIT_INNER ==
    <<"n", "o", "_", "s", "p", "l", "i", "t", "_", "i", "n", "n", "e", "r">>

\* the input of scenarios 4 and 5 as spec.md prints it
SHORT_HTML_SPEC ==
    <<"<", "b", ">", "<", "i", ">", "<", "s", ">", "<", "s", "p", "a", "n", " ", "c", "l",
      "a", "s", "s", "=", "\"", "t", "g", "-", "s", "p", "o", "i", "l", "e", "r", "\"",
      ">", "<", "/", "s", "p", "a", "n", ">", "<", "/", "s", ">", "<", "/", "i", ">", "<",
      "/", "b", ">", "H", "e", "l", "l", "o">>

\* the same tags around the text: 53 bytes of tags, as the comment of
\* test_prepare_token_groups (token_group.rs) counts them
SHORT_HTML ==
    <<"<", "b", ">", "<", "i", ">", "<", "s", ">", "<", "s", "p", "a", "n", " ", "c", "l",
      "a", "s", "s", "=", "\"", "t", "g", "-", "s", "p", "o", "i", "l", "e", "r", "\"",
      ">", "H", "e", "l", "l", "o", "<", "/", "s", "p", "a", "n", ">", "<", "/", "s", ">",
      "<", "/", "i", ">", "<", "/", "b", ">">>

\* the input of test_no_split_inside_normal_tags
NO_SPLIT_HTML ==
    <<"<", "d", "i", "v", ">", "S", "o", "m", "e", " ", "t", "e", "x", "t", " ", "b", "e",
      "f", "o", "r", "e", ".", "<", "n", "o", "_", "s", "p", "l", "i", "t", "_", "t", "a",
      "g", ">", "D", "o", " ", "n", "o", "t", " ", "s", "p", "l", "i", "t", " ", "t", "h",
      "i", "s", " ", "p", "a", "r", "t", ".", "<", "/", "n", "o", "_", "s", "p", "l", "i",
      "t", "_", "t", "a", "g", ">", "S", "o", "m", "e", " ", "t", "e", "x", "t", " ", "a",
      "f", "t", "e", "r", ".", "<", "/", "d", "i", "v", ">">>

\* the input of test_nested_no_split_tags_exceed_chunk_size
NESTED_NO_SPLIT_HTML ==
    <<"<", "n", "o", "_", "s", "p", "l", "i", "t", "_", "o", "u", "t", "e", "r", ">", "<",
      "n", "o", "_", "s", "p", "l", "i", "t", "_", "i", "n", "n", "e", "r", ">", "N", "e",
      "s", "t", "e", "d", " ", "c", "o", "n", "t", "e", "n", "t", " ", "t", "h", "a", "t",
      " ", "i", "s", " ", "t", "o", "o", " ", "l", "o", "n", "g", " ", "f", "o", "r", " ",
      "t", "h", "e", " ", "c", "h", "u", "n", "k", " ", "s", "i", "z", "e", " ", "l", "i",
      "m", "i", "t", ".", "<", "/", "n", "o", "_", "s", "p", "l", "i", "t", "_", "i", "n",
      "n", "e", "r", ">", "<", "/", "n", "o", "_", "s", "p", "l", "i", "t", "_", "o", "u",
      "t", "e", "r", ">">>

\* the input of test_split_plain_text
PLAIN_TEXT ==
    <<"T", "h", "i", "s", " ", "i", "s", " ", "a", " ", "s", "i", "m", "p", "l", "e", " ",
      "p", "l", "a", "i", "n", " ", "t", "e", "x", "t", " ", "w", "i", "t", "h", "o", "u",
      "t", " ", "a", "n", "y", " ", "H", "T", "M", "L", " ", "t", "a", "g", "s", ".">>

\* the input of test_unicode_subdivide: 52 bytes of tags around one 4-byte
\* character, the width the bounds of the test (an error below 56) rest on;
\* token_group.rs:306 stores the character mis-decoded
EMOJI_HTML ==
    <<"<", "t", "g", "-", "e", "m", "o", "j", "i", " ", "e", "m", "o", "j", "i", "-", "i",
      "d", "=", "\"", "5", "3", "6", "8", "3", "2", "4", "1", "7", "0", "6", "7", "1", "2",
      "0", "2", "2", "8", "6", "\"", ">", CH4, "<", "/", "t", "g", "-", "e", "m", "o", "j",
      "i", ">">>

\* The pieces the enumerated inputs are concatenated from: two tag names (n is
\* the one a no-split set may hold), a letter, a blank and a 2-byte character.
Pieces ==
    { <<"<", "n", ">">>, <<"<", "/", "n", ">">>,
      <<"<", "b", ">">>, <<"<", "/", "b", ">">>,
      <<"x">>, <<" ">>, <<CH2>> }

\* bounds of the enumeration
MaxPieces == 3
MaxBudget == 24
MaxScenarioBudget == 60

PieceSeqs == UNION { [1..k -> Pieces] : k \in 0..MaxPieces }
EnumTexts == { Concat(ps) : ps \in PieceSeqs }

\* A no-split subtree inside an ordinary tag, with text before, inside and after
TextPool ==
    { <<>>, <<"x">>, <<"x", "x", " ", "x", "x", "x">>, <<CH4, CH2, "x">> }

\* what the no-split subtree may hold: a text, or a text and a tag around a text
InnerPool ==
    TextPool \cup { <<"<", "b", ">", "x", "<", "/", "b", ">">>,
                    <<"x", "<", "b", ">", "x", " ", "x", "<", "/", "b", ">">> }

NestedTexts ==
    { <<"<", "b", ">">> \o t1 \o <<"<", "n", ">">> \o t2 \o <<"<", "/", "n", ">">>
        \o t3 \o <<"<", "/", "b", ">">> : t1 \in TextPool, t2 \in InnerPool, t3 \in TextPool }

\* Up to three top-level groups in a row
GroupPool ==
    { <<>>, <<"x">>, <<"x", " ", "x">>,
      <<"<", "b", ">", "x", "<", "/", "b", ">">>,
      <<"<", "n", ">", "x", "x", "<", "/", "n", ">">>,
      <<"<", "b", ">", "<", "/", "b", ">">> }

GroupTexts == { g1 \o g2 \o g3 : g1 \in GroupPool, g2 \in GroupPool, g3 \in GroupPool }

\* One tag around one character of each byte width
SingleCharTexts ==
    { <<"<", "b", ">", c, "<", "/", "b", ">">> : c \in {"x", " ", CH2, CH4} }

\* A tag with a longer name opened after a text, inside another tag
LongNameTexts ==
    { <<"<", "b", ">", "x", "<", "s", "p", "a", "n", ">", "x", "<", "/", "s", "p", "a",
        "n", ">", "<", "/", "b", ">">> }

Input(t, b, ns) == [html |-> t, max_chunk_size |-> b, no_split |-> ns]

Inputs ==
    { Input(t, b, ns) : t \in EnumTexts \cup NestedTexts \cup GroupTexts \cup SingleCharTexts
                             \cup LongNameTexts,
                        b \in 0..MaxBudget,
                        ns \in {{}, {NAME_N}} }
    \cup { Input(t, b, {NAME_A}) : t \in {SHORT_HTML, SHORT_HTML_SPEC},
                                   b \in 0..MaxScenarioBudget }
    \cup { Input(NO_SPLIT_HTML, 20, {NAME_NO_SPLIT_TAG}),
           Input(NESTED_NO_SPLIT_HTML, 10, {NAME_NO_SPLIT_OUTER, NAME_NO_SPLIT_INNER}),
           Input(PLAIN_TEXT, 10, {}) }
    \cup { Input(EMOJI_HTML, b, {}) : b \in 0..MaxScenarioBudget }

\* budgets run from 0 to just over the input's length: every larger budget
\* behaves like the last one
ValidInputs == { i \in Inputs : i.max_chunk_size <= str_len(i.html) + 1 }

\* ---------------------------------------------------------------- state

VARIABLES
    html,             \* the input string
    max_chunk_size,   \* the budget
    no_split,         \* the no-split tag names
    mode,             \* the entry point called: split, or from_string + subdivide
    pc,               \* the position in the code
    token_groups_in,  \* split: the groups of prepare_token_groups
    gi,               \* split: the position of the for loop over the groups
    chunks,           \* split: chunks
    chunk,            \* split: chunk
    has_exceeded,     \* split: has_exceeded
    self,             \* subdivide: the group being subdivided
    map,              \* subdivide: map
    stack,            \* subdivide: stack
    future_close_len, \* subdivide: future_close_len
    token_groups,     \* subdivide: token_groups
    tg,               \* subdivide: tg
    index,            \* subdivide: index (1-based)
    text,             \* subdivide, text loop: text
    text_start_index, \* subdivide, text loop: text_start_index
    sub_result,       \* what the last call of subdivide returned
    result,           \* what the entry point returned
    last_op           \* history: the step taken last

inputVars == <<html, max_chunk_size, no_split, mode>>
splitVars == <<token_groups_in, gi, chunks, chunk, has_exceeded>>
subVars == <<self, map, stack, future_close_len, token_groups, tg, index, text,
             text_start_index>>
vars == <<inputVars, splitVars, subVars, pc, sub_result, result, last_op>>

Init ==
    /\ \E i \in ValidInputs :
        /\ html = i.html
        /\ max_chunk_size = i.max_chunk_size
        /\ no_split = i.no_split
    /\ mode \in {"split", "subdivide"}
    /\ pc = "start"
    /\ token_groups_in = <<>>
    /\ gi = 1
    /\ chunks = <<>>
    /\ chunk = <<>>
    /\ has_exceeded = FALSE
    /\ self = default_group
    /\ map = empty_map
    /\ stack = <<>>
    /\ future_close_len = 0
    /\ token_groups = <<>>
    /\ tg = default_group
    /\ index = 1
    /\ text = <<>>
    /\ text_start_index = 0
    /\ sub_result = NoResult
    /\ result = NoResult
    /\ last_op = "init"

\* ---------------------------------------------------------------- steps

\* usize arithmetic: a debug build panics on overflow, a release build wraps.
\* The model wraps at 2^30, far above every length that occurs here.
USIZE_RANGE == 2^30
\* the subtraction that leaves its first operand as it is
wrapping_sub_keeping(a, b) == a

wrapping_sub(a, b) == IF a >= b THEN a - b ELSE a - b + USIZE_RANGE

\* debug_assert!(cond) and overflow checks: whether the step may panic. When
\* cond holds no build panics; when it fails a debug build panics and a release
\* build goes on.
MayPanic(cond) == IF cond THEN {FALSE} ELSE {FALSE, TRUE}

\* the serialized groups, as split pushes them to chunks (lib.rs 101-103)
RECURSIVE groups_to_strings(_)
groups_to_strings(gs) ==
    IF gs = <<>> THEN <<>> ELSE <<to_string(Head(gs))>> \o groups_to_strings(Tail(gs))

IsSoft(r) == r.kind = "Err" /\ r.variant = "SubdividedExceedingTheLimit"

\* the flag as the last result alone would set it
sticky_exceeded_last_only(flag, r) == IsSoft(r)

\* split, lib.rs 92-97: has_exceeded after the match on the result of subdivide
sticky_exceeded(flag, r) == flag \/ IsSoft(r)

\* subdivide returns r: to the caller of subdivide, or into the match of split
\* (lib.rs 92-103), which keeps the groups of Ok and of the soft error and
\* returns every other error at once
SubdivideReturns(r) ==
    /\ sub_result' = r
    /\ UNCHANGED subVars
    /\ IF mode = "split" /\ (r.kind = "Ok" \/ IsSoft(r))
       THEN /\ chunks' = chunks \o groups_to_strings(r.value)
            /\ has_exceeded' = sticky_exceeded(has_exceeded, r)
            /\ gi' = gi + 1
            /\ pc' = "split_loop"
            /\ UNCHANGED <<token_groups_in, chunk, result>>
       ELSE /\ result' = r
            /\ pc' = "done"
            /\ UNCHANGED splitVars

\* subdivide goes on with these locals
SubdivideGoes(tgs, g, st, fcl, idx, txt, tsi, next_pc) ==
    /\ token_groups' = tgs
    /\ tg' = g
    /\ stack' = st
    /\ future_close_len' = fcl
    /\ index' = idx
    /\ text' = txt
    /\ text_start_index' = tsi
    /\ pc' = next_pc
    /\ UNCHANGED <<self, map, splitVars, sub_result, result>>

\* split, lib.rs 69-74: prepare_token_groups(text)?
SplitCall ==
    /\ pc = "start"
    /\ mode = "split"
    /\ last_op' = "SplitCall"
    /\ LET r == prepare_token_groups(html)
       IN  IF r.kind = "Ok"
           THEN /\ token_groups_in' = r.value
                /\ pc' = "split_loop"
                /\ UNCHANGED <<gi, chunks, chunk, has_exceeded, result>>
           ELSE /\ result' = r
                /\ pc' = "done"
                /\ UNCHANGED splitVars
    /\ UNCHANGED <<inputVars, subVars, sub_result>>

\* the room check without the length of the group to add
chunk_has_room_ignoring_group(g) == str_len(chunk) <= max_chunk_size

\* split, lib.rs 75: chunk.len() + tg.len <= max_chunk_size
chunk_has_room(g) == str_len(chunk) + g.len <= max_chunk_size

\* split, lib.rs 75-78: the group fits in the current chunk
SplitAppend ==
    /\ pc = "split_loop"
    /\ gi <= Len(token_groups_in)
    /\ chunk_has_room(token_groups_in[gi])
    /\ chunk' = chunk \o to_string(token_groups_in[gi])
    /\ gi' = gi + 1
    /\ last_op' = "SplitAppend"
    /\ UNCHANGED <<inputVars, subVars, token_groups_in, chunks, has_exceeded, pc,
                   sub_result, result>>

\* split, lib.rs 80-85: the group fits in a chunk of its own
SplitOwnChunk ==
    /\ pc = "split_loop"
    /\ gi <= Len(token_groups_in)
    /\ ~chunk_has_room(token_groups_in[gi])
    /\ token_groups_in[gi].len <= max_chunk_size
    /\ chunks' = chunks \o <<chunk, to_string(token_groups_in[gi])>>
    /\ chunk' = <<>>
    /\ gi' = gi + 1
    /\ last_op' = "SplitOwnChunk"
    /\ UNCHANGED <<inputVars, subVars, token_groups_in, has_exceeded, pc,
                   sub_result, result>>

\* split, lib.rs 87-92: the group is larger than the budget: flush the chunk
\* and call subdivide on the group
SplitSubdivide ==
    /\ pc = "split_loop"
    /\ gi <= Len(token_groups_in)
    /\ ~chunk_has_room(token_groups_in[gi])
    /\ token_groups_in[gi].len > max_chunk_size
    /\ chunks' = IF chunk # <<>> THEN Append(chunks, chunk) ELSE chunks
    /\ chunk' = <<>>
    /\ self' = token_groups_in[gi]
    /\ sub_result' = NoResult
    /\ pc' = "sub_start"
    /\ last_op' = "SplitSubdivide"
    /\ UNCHANGED <<inputVars, token_groups_in, gi, has_exceeded, map, stack,
                   future_close_len, token_groups, tg, index, text,
                   text_start_index, result>>

\* split, lib.rs 106-114: after the loop
SplitFinish ==
    /\ pc = "split_loop"
    /\ gi > Len(token_groups_in)
    /\ LET all == IF chunk # <<>> THEN Append(chunks, chunk) ELSE chunks
       IN  /\ chunks' = all
           /\ result' = IF has_exceeded THEN Err("SplitExceededTheLimit", all)
                        ELSE Ok(all)
    /\ pc' = "done"
    /\ last_op' = "SplitFinish"
    /\ UNCHANGED <<inputVars, subVars, token_groups_in, gi, chunk, has_exceeded,
                   sub_result>>

\* TokenGroup::from_string(html), then subdivide on the group
SubdivideCall ==
    /\ pc = "start"
    /\ mode = "subdivide"
    /\ last_op' = "SubdivideCall"
    /\ LET f == from_string(html)
       IN  IF f.panic
           THEN /\ result' = Panic
                /\ pc' = "done"
                /\ UNCHANGED self
           ELSE /\ self' = f.group
                /\ pc' = "sub_start"
                /\ UNCHANGED result
    /\ UNCHANGED <<inputVars, splitVars, map, stack, future_close_len, token_groups,
                   tg, index, text, text_start_index, sub_result>>

\* subdivide, token_group.rs 129-139: the budget check, the map, the locals
SubdivideEnter ==
    /\ pc = "sub_start"
    /\ last_op' = "SubdivideEnter"
    /\ UNCHANGED inputVars
    /\ IF max_chunk_size = 0
       THEN SubdivideReturns(Err("InvalidLen", max_chunk_size))
       ELSE LET m == prepare_open_close_map(self)
            IN  IF m.err
                THEN SubdivideReturns(Err("UnbalancedToken", m.token))
                ELSE /\ map' = m.map
                     /\ stack' = <<>>
                     /\ future_close_len' = 0
                     /\ token_groups' = <<>>
                     /\ tg' = default_group
                     /\ index' = 1
                     /\ text' = <<>>
                     /\ text_start_index' = 0
                     /\ pc' = "sub_loop"
                     /\ UNCHANGED <<self, splitVars, sub_result, result>>

InLoop == pc = "sub_loop" /\ index <= Len(self.tokens)

\* the eject condition without the close tags still owed to the stack
NoSplitTooLong_ignoring_debt(token) ==
    /\ tag_name(token) \in no_split
    /\ tg.len + len_since(map[token], token) > max_chunk_size

\* the condition of the no-split eject, token_group.rs 158-159
NoSplitTooLong(token) ==
    /\ tag_name(token) \in no_split
    /\ tg.len + future_close_len + len_since(map[token], token) > max_chunk_size

\* the condition of the preemptive cut, token_group.rs 180
NoRoomToClose(token) ==
    tg.len + token_len(token) + token_len(map[token]) + future_close_len
        >= max_chunk_size

\* subdivide, token_group.rs 150: close_token.unwrap() on an open tag that the
\* map has no close tag for
OpenTagUnmatched ==
    /\ InLoop
    /\ is_open(self.tokens[index])
    /\ self.tokens[index] \notin DOMAIN map
    /\ last_op' = "OpenTagUnmatched"
    /\ UNCHANGED inputVars
    /\ SubdivideReturns(Panic)

\* subdivide, token_group.rs 158-176: the no-split eject
OpenTagEject ==
    /\ InLoop
    /\ is_open(self.tokens[index])
    /\ self.tokens[index] \in DOMAIN map
    /\ NoSplitTooLong(self.tokens[index])
    /\ last_op' = "OpenTagEject"
    /\ UNCHANGED inputVars
    /\ LET token == self.tokens[index]
           close_token_index == get_close_token_index(self, index, map)
           closed  == close_from_stack(tg, stack, map)
           wrapped == wrap(self, index, close_token_index, stack, map)
       IN  IF close_token_index = 0
           THEN SubdivideReturns(Err("UnbalancedToken", map[token]))
           ELSE IF wrapped.len + future_close_len >= max_chunk_size
           THEN SubdivideGoes(token_groups \o <<closed, wrapped>>,
                              new_from_stack(stack), stack, future_close_len,
                              close_token_index + 1, text, text_start_index,
                              "sub_loop")
           ELSE SubdivideGoes(Append(token_groups, closed), wrapped, stack,
                              future_close_len, close_token_index + 1, text,
                              text_start_index, "sub_loop")

\* subdivide, token_group.rs 180-197: the preemptive cut and the accept
OpenTagAccept ==
    /\ InLoop
    /\ is_open(self.tokens[index])
    /\ self.tokens[index] \in DOMAIN map
    /\ ~NoSplitTooLong(self.tokens[index])
    /\ UNCHANGED inputVars
    /\ LET token == self.tokens[index]
           cut   == NoRoomToClose(token)
           tgs   == IF cut THEN Append(token_groups, close_from_stack(tg, stack, map))
                    ELSE token_groups
           g     == push(IF cut THEN new_from_stack(stack) ELSE tg, token)
       IN  /\ last_op' = IF cut THEN "OpenTagCut" ELSE "OpenTagAccept"
           /\ IF cut /\ is_all_open(tg)
              THEN SubdivideReturns(Err("SubdivisionImpossible", tg))
              ELSE \E panics \in MayPanic(g.len <= max_chunk_size) :
                     IF panics THEN SubdivideReturns(Panic)
                     ELSE SubdivideGoes(tgs, g, Append(stack, token),
                                        future_close_len + token_len(map[token]),
                                        index + 1, text, text_start_index, "sub_loop")

\* subdivide, token_group.rs 200-207: a close tag
CloseTag ==
    /\ InLoop
    /\ is_close(self.tokens[index])
    /\ last_op' = "CloseTag"
    /\ UNCHANGED inputVars
    /\ LET token == self.tokens[index]
           g     == push(tg, token)
       IN  \E panics \in MayPanic(g.len <= max_chunk_size
                                  /\ future_close_len >= token_len(token)) :
             IF panics THEN SubdivideReturns(Panic)
             ELSE IF stack = <<>>
             THEN SubdivideReturns(Err("UnbalancedToken", token))
             ELSE SubdivideGoes(token_groups, g, Front(stack),
                                wrapping_sub(future_close_len, token_len(token)),
                                index + 1, text, text_start_index, "sub_loop")

\* the fit of a text without the close tags still owed
text_fits_ignoring_debt(token) == tg.len + token_len(token) <= max_chunk_size

\* subdivide, token_group.rs 209-210: future_len <= max_chunk_size
text_fits(token) == tg.len + future_close_len + token_len(token) <= max_chunk_size

\* subdivide, token_group.rs 208-216: a text that fits whole
TextWhole ==
    /\ InLoop
    /\ self.tokens[index].kind = "Text"
    /\ text_fits(self.tokens[index])
    /\ last_op' = "TextWhole"
    /\ UNCHANGED inputVars
    /\ SubdivideGoes(token_groups, push(tg, self.tokens[index]), stack,
                     future_close_len, index + 1, text, text_start_index, "sub_loop")

\* subdivide, token_group.rs 208-220: a text that does not fit enters the loop
TextTooLong ==
    /\ InLoop
    /\ self.tokens[index].kind = "Text"
    /\ ~text_fits(self.tokens[index])
    /\ last_op' = "TextTooLong"
    /\ UNCHANGED inputVars
    /\ SubdivideGoes(token_groups, tg, stack, future_close_len, index,
                     as_text(self.tokens[index]), token_index(self.tokens[index]),
                     "sub_text")

\* subdivide, token_group.rs 220-260: one iteration of the text loop
TextPeel ==
    /\ pc = "sub_text"
    /\ last_op' = "TextPeel"
    /\ UNCHANGED inputVars
    /\ LET token == self.tokens[index]
           fits  == tg.len <= max_chunk_size
       IN  IF future_close_len + tg.len > max_chunk_size
           THEN \E panics \in MayPanic(fits) :
                  IF panics THEN SubdivideReturns(Panic)
                  ELSE SubdivideReturns(Err("SubdivisionImpossible", tg))
           ELSE
           LET flush == max_chunk_size - future_close_len - tg.len = 0
               tgs1  == IF flush
                        THEN Append(token_groups, close_from_stack(tg, stack, map))
                        ELSE token_groups
               tg1   == IF flush THEN new_from_stack(stack) ELSE tg
               room  == max_chunk_size - future_close_len >= tg1.len
               available_len ==
                   wrapping_sub(max_chunk_size - future_close_len, tg1.len)
               seg   == split_with_respect_to_whitespace(text, available_len)
               tg2   == push(tg1, Token("Text", seg.value, text_start_index))
               rest  == byte_suffix(text, str_len(seg.value)).value
               tgs2  == Append(tgs1, close_from_stack(tg2, stack, map))
           IN  IF room /\ available_len = 0
               THEN SubdivideReturns(Err("SubdivisionImpossible", tg1))
               ELSE IF seg.kind = "None"
               THEN \E panics \in MayPanic(room) :
                      IF panics THEN SubdivideReturns(Panic)
                      ELSE SubdivideReturns(Err("SubdivisionImpossibleUnicode", token))
               ELSE IF seg.kind = "Panic"
               THEN SubdivideReturns(Panic)
               ELSE \E panics \in MayPanic(/\ fits
                                           /\ room
                                           /\ seg.value # <<>>
                                           /\ str_len(seg.value) <= available_len
                                           /\ tg2.len <= max_chunk_size
                                           /\ ~is_all_open(tg2)) :
                      IF panics THEN SubdivideReturns(Panic)
                      ELSE SubdivideGoes(tgs2, new_from_stack(stack), stack,
                                         future_close_len,
                                         IF rest = <<>> THEN index + 1 ELSE index,
                                         rest, text_start_index + str_len(seg.value),
                                         IF rest = <<>> THEN "sub_loop" ELSE "sub_text")

\* subdivide, token_group.rs 267-285: the end of the pass and the post-check
EndOfPass ==
    /\ pc = "sub_loop"
    /\ index > Len(self.tokens)
    /\ last_op' = "EndOfPass"
    /\ UNCHANGED inputVars
    /\ LET tgs == IF tg.tokens # <<>> /\ ~is_all_open(tg)
                  THEN Append(token_groups, tg) ELSE token_groups
           over == \E i \in 1..Len(tgs) : tgs[i].len > max_chunk_size
       IN  IF stack # <<>>
           THEN SubdivideReturns(Err("UnbalancedToken", Last(stack)))
           ELSE \E panics \in MayPanic(tg.len <= max_chunk_size
                                       /\ future_close_len = 0) :
                  IF panics THEN SubdivideReturns(Panic)
                  ELSE IF over
                  THEN SubdivideReturns(Err("SubdividedExceedingTheLimit", tgs))
                  ELSE SubdivideReturns(Ok(tgs))

Next ==
    \/ SplitCall
    \/ SplitAppend
    \/ SplitOwnChunk
    \/ SplitSubdivide
    \/ SplitFinish
    \/ SubdivideCall
    \/ SubdivideEnter
    \/ OpenTagUnmatched
    \/ OpenTagEject
    \/ OpenTagAccept
    \/ CloseTag
    \/ TextWhole
    \/ TextTooLong
    \/ TextPeel
    \/ EndOfPass

Spec == Init /\ [][Next]_vars

\* ---------------------------------------------------------------- ext.rs alone

\* bound of the enumerated strings
MaxStrLen == 4

\* the strings of test_split_with_respect_to_whitespace
HELLO_WORLD == <<"h", "e", "l", "l", "o", " ", "w", "o", "r", "l", "d">>
LONG_WORD ==
    <<"l", "o", "n", "g", "_", "w", "o", "r", "d", "_", "w", "i", "t", "h", "_", "n", "o",
      "_", "w", "h", "i", "t", "e", "s", "p", "a", "c", "e">>
ITALIC_BOLD ==
    <<"i", "t", "a", "l", "i", "c", " ", "b", "o", "l", "d", " ", "s", "t", "r", "i", "k",
      "e", "t", "h", "r", "o", "u", "g", "h", " ">>

\* the calls of split_with_respect_to_whitespace: every string of up to
\* MaxStrLen characters of 1, 2 and 4 bytes, blanks among them, and the strings
\* of the test, each with every budget from 0 to just over its length
StrInputs ==
    { <<t, b>> \in (UNION { [1..k -> {"x", " ", CH2, CH4}] : k \in 0..MaxStrLen }
                    \cup {HELLO_WORLD, LONG_WORD, ITALIC_BOLD})
                   \X (0..(4 * MaxStrLen + 1)) : b <= str_len(t) + 1 }

InitExt ==
    /\ \E i \in StrInputs : html = i[1] /\ max_chunk_size = i[2]
    /\ no_split = {}
    /\ mode = "split_with_respect_to_whitespace"
    /\ pc = "start"
    /\ token_groups_in = <<>>
    /\ gi = 1
    /\ chunks = <<>>
    /\ chunk = <<>>
    /\ has_exceeded = FALSE
    /\ self = default_group
    /\ map = empty_map
    /\ stack = <<>>
    /\ future_close_len = 0
    /\ token_groups = <<>>
    /\ tg = default_group
    /\ index = 1
    /\ text = <<>>
    /\ text_start_index = 0
    /\ sub_result = NoResult
    /\ result = NoResult
    /\ last_op = "init"

\* html.split_with_respect_to_whitespace(max_chunk_size)
SplitPosCall ==
    /\ pc = "start"
    /\ mode = "split_with_respect_to_whitespace"
    /\ result' = split_with_respect_to_whitespace(html, max_chunk_size)
    /\ pc' = "done"
    /\ last_op' = "SplitPosCall"
    /\ UNCHANGED <<inputVars, splitVars, subVars, sub_result>>

NextExt == SplitPosCall

SpecExt == InitExt /\ [][NextExt]_vars

\* ---------------------------------------------------------------- properties

\* A token sequence is balanced: no close tag without an open one before it,
\* no open tag left unclosed.
RECURSIVE DepthOk(_, _)
DepthOk(tokens, depth) ==
    IF tokens = <<>> THEN depth = 0
    ELSE CASE is_open(Head(tokens))  -> DepthOk(Tail(tokens), depth + 1)
           [] is_close(Head(tokens)) -> depth > 0 /\ DepthOk(Tail(tokens), depth - 1)
           [] OTHER                  -> DepthOk(Tail(tokens), depth)

IsBalanced(tokens) == DepthOk(tokens, 0)

\* a string is balanced: it scans into tokens and these are balanced
IsBalancedString(s) ==
    LET t == Tokenizer(s, 0) IN ~t.panic /\ IsBalanced(t.tokens)

\* the text outside the tags of a string (what the tests' clean() keeps)
RECURSIVE strip_tags(_)
strip_tags(s) ==
    IF s = <<>> THEN <<>>
    ELSE IF Head(s) = "<"
    THEN LET close_pos == str_find(s, ">")
         IN  IF close_pos = 0 THEN <<>>
             ELSE strip_tags(SubSeq(s, close_pos + 1, Len(s)))
    ELSE <<Head(s)>> \o strip_tags(Tail(s))

\* a result that carries output: Ok, or one of the two soft errors
CarriesOutput(r) ==
    \/ r.kind = "Ok"
    \/ r.kind = "Err" /\ r.variant \in {"SubdividedExceedingTheLimit",
                                        "SplitExceededTheLimit"}

SplitReturned == pc = "done" /\ mode = "split"

\* C1: whenever split returns Ok(chunks), every chunk has a byte length of at
\* most max_chunk_size.
C1_SizeBound ==
    (SplitReturned /\ result.kind = "Ok")
        => \A i \in 1..Len(result.value) : str_len(result.value[i]) <= max_chunk_size

\* C1 witness: split returned Ok after subdividing one group and packing
\* another, with a chunk that fills the budget exactly.
C1_Witness ==
    /\ SplitReturned
    /\ result.kind = "Ok"
    /\ sub_result.kind = "Ok"
    /\ \E j \in 1..Len(token_groups_in) : token_groups_in[j].len \in 1..max_chunk_size
    /\ Len(result.value) >= 3
    /\ \E i \in 1..Len(result.value) : str_len(result.value[i]) = max_chunk_size

\* C2: for a balanced input and a budget of at least 1, when split returns Ok
\* or SplitExceededTheLimit, the tag-stripped concatenation of the chunks is the
\* tag-stripped input.
C2_RoundTrip ==
    (/\ SplitReturned
     /\ CarriesOutput(result)
     /\ max_chunk_size >= 1
     /\ IsBalancedString(html))
        => strip_tags(Concat(result.value)) = strip_tags(html)

\* C2 witness: split returned output in which a text was cut, a no-split
\* subtree went out whole and the input has text to lose.
C2_Witness ==
    /\ SplitReturned
    /\ CarriesOutput(result)
    /\ max_chunk_size >= 1
    /\ Len(result.value) >= 3
    /\ Len(strip_tags(html)) >= 3
    /\ Len(html) > Len(strip_tags(html))
    /\ has_exceeded

\* C3: every group subdivide returns on a balanced group, and every chunk split
\* returns, is a balanced fragment.
C3_Balance ==
    /\ (CarriesOutput(sub_result) /\ IsBalanced(self.tokens))
          => \A i \in 1..Len(sub_result.value) : IsBalanced(sub_result.value[i].tokens)
    /\ (SplitReturned /\ CarriesOutput(result))
          => \A i \in 1..Len(result.value) : IsBalancedString(result.value[i])

\* the position of the close tag that matches the open tag at position i of
\* tokens, by nesting depth; 0 when there is none
RECURSIVE MatchFrom(_, _, _)
MatchFrom(tokens, j, depth) ==
    IF j > Len(tokens) THEN 0
    ELSE CASE is_open(tokens[j])  -> MatchFrom(tokens, j + 1, depth + 1)
           [] is_close(tokens[j]) -> IF depth = 1 THEN j
                                     ELSE MatchFrom(tokens, j + 1, depth - 1)
           [] OTHER               -> MatchFrom(tokens, j + 1, depth)

MatchClose(tokens, i) == MatchFrom(tokens, i + 1, 1)

\* the positions of the open tags of tokens whose name is in the no-split set
NoSplitOpens(tokens) ==
    { i \in 1..Len(tokens) : is_open(tokens[i]) /\ tag_name(tokens[i]) \in no_split }

\* the sum of f over 1..n
RECURSIVE SumTo(_, _)
SumTo(f, n) == IF n = 0 THEN 0 ELSE f[n] + SumTo(f, n - 1)

\* the no-split subtrees of the groups gs, as strings
SubtreeStrings(gs) ==
    { tokens_to_string(SubSeq(gs[k].tokens, i, MatchClose(gs[k].tokens, i))) :
        <<k, i>> \in { <<k, i>> \in (1..Len(gs)) \X (1..Len(html)) :
                         i \in NoSplitOpens(gs[k].tokens) } }

\* the group out holds whole every no-split subtree of the group in that it opens
WholeInGroup(out, in) ==
    \A p \in NoSplitOpens(out.tokens) :
      \E i \in NoSplitOpens(in.tokens) :
        LET j == MatchClose(in.tokens, i)
        IN  /\ in.tokens[i] = out.tokens[p]
            /\ j > 0
            /\ p + (j - i) <= Len(out.tokens)
            /\ SubSeq(out.tokens, p, p + (j - i)) = SubSeq(in.tokens, i, j)

\* the chunk holds whole every no-split subtree it opens
WholeInChunk(c, subtrees) ==
    LET tc == Tokenizer(c, 0).tokens
    IN  \A p \in NoSplitOpens(tc) :
          /\ MatchClose(tc, p) > 0
          /\ tokens_to_string(SubSeq(tc, p, MatchClose(tc, p))) \in subtrees

\* C4: in every result of subdivide or split that carries output, each subtree
\* opened by a no-split tag is whole inside a single chunk: every no-split open
\* tag of an output group is followed there by its whole subtree of the input,
\* and no such open tag is emitted twice or lost.
C4_NoSplitWhole ==
    /\ CarriesOutput(sub_result) =>
         /\ \A k \in 1..Len(sub_result.value) : WholeInGroup(sub_result.value[k], self)
         /\ SumTo([k \in 1..Len(sub_result.value) |->
                      Cardinality(NoSplitOpens(sub_result.value[k].tokens))],
                  Len(sub_result.value))
              = Cardinality(NoSplitOpens(self.tokens))
    /\ (SplitReturned /\ CarriesOutput(result)) =>
         /\ \A k \in 1..Len(result.value) :
              WholeInChunk(result.value[k], SubtreeStrings(token_groups_in))
         /\ SumTo([k \in 1..Len(result.value) |->
                      Cardinality(NoSplitOpens(Tokenizer(result.value[k], 0).tokens))],
                  Len(result.value))
              = SumTo([k \in 1..Len(token_groups_in) |->
                          Cardinality(NoSplitOpens(token_groups_in[k].tokens))],
                      Len(token_groups_in))

\* C4 witness: split returned within the budget after subdivide ejected a
\* no-split subtree that sits inside another tag.
C4_Witness ==
    /\ SplitReturned
    /\ result.kind = "Ok"
    /\ sub_result.kind = "Ok"
    /\ Len(sub_result.value) >= 3
    /\ \E i \in NoSplitOpens(self.tokens) : i > 1

\* tokens without its empty tag pairs: an open tag directly followed by a close
\* tag is removed, until there is none
RECURSIVE Elide(_)
Elide(tokens) ==
    LET pairs == { i \in 1..(Len(tokens) - 1) :
                     is_open(tokens[i]) /\ is_close(tokens[i + 1]) }
    IN  IF pairs = {} THEN tokens
        ELSE LET i == CHOOSE i \in pairs : \A k \in pairs : i <= k
             IN  Elide(SubSeq(tokens, 1, i - 1) \o SubSeq(tokens, i + 2, Len(tokens)))

ElidedString(s) == tokens_to_string(Elide(Tokenizer(s, 0).tokens))

\* split was called on a balanced text with the empty no-split set and a
\* positive budget of at least the text's length, and has returned
LargeBudgetSplitReturned ==
    /\ SplitReturned
    /\ IsBalancedString(html)
    /\ no_split = {}
    /\ max_chunk_size >= 1
    /\ max_chunk_size >= str_len(html)

\* C5 as claimed: with B >= len(text), split(text, B, []) returns exactly one
\* chunk, equal to text or to text with its empty tag pairs elided.
C5_OneChunk ==
    LargeBudgetSplitReturned =>
        /\ result.kind = "Ok"
        /\ Len(result.value) = 1
        /\ result.value[1] \in {html, ElidedString(html)}

\* C5 as amended: with B >= len(text), split(text, B, []) returns Ok with exactly
\* one chunk, the text with its empty tag pairs elided, when that is not empty,
\* and Ok with no chunk when the text is empty or made of empty tag pairs only.
C5_AtMostOneChunk ==
    LargeBudgetSplitReturned =>
        /\ result.kind = "Ok"
        /\ result.value = IF ElidedString(html) = <<>> THEN <<>>
                          ELSE <<ElidedString(html)>>

\* C5 witness: a text of several top-level groups, one of them with an empty
\* tag pair, came back as one chunk that differs from the text.
C5_Witness ==
    /\ LargeBudgetSplitReturned
    /\ Len(token_groups_in) >= 2
    /\ Len(result.value) = 1
    /\ result.value[1] # html
    /\ Len(strip_tags(html)) >= 1
    /\ Len(result.value[1]) > Len(strip_tags(html))

\* C6: every call of split or subdivide with max_chunk_size = 0 returns
\* InvalidLen(0), never Ok (stated for balanced inputs, the empty string and
\* inputs of empty tag pairs among them).
C6_ZeroBudgetRejected ==
    (pc = "done" /\ max_chunk_size = 0 /\ IsBalancedString(html))
        => result = Err("InvalidLen", 0)

\* C7: for an input whose tags are not balanced, split and subdivide (on the
\* group of from_string) return UnbalancedToken; they never return Ok and never
\* panic (stated for budgets of at least 1).
C7_UnbalancedIsError ==
    (pc = "done" /\ max_chunk_size >= 1 /\ ~IsBalancedString(html))
        => (result.kind = "Err" /\ result.variant = "UnbalancedToken")

\* s is a prefix of t
IsPrefix(s, t) == Len(s) <= Len(t) /\ SubSeq(t, 1, Len(s)) = s

\* C8: in split, has_exceeded is set exactly by a SubdividedExceedingTheLimit of
\* subdivide and never resets; after it the loop goes on to the next group; no
\* chunk is ever dropped; every other error of subdivide ends split at once with
\* that error; and at the end, with every group processed, split returns
\* SplitExceededTheLimit(chunks) exactly when the flag is set, chunks holding
\* the text of every group in input order.
C8_Sticky ==
    [][mode = "split" =>
        /\ has_exceeded => has_exceeded'
        /\ (sub_result = NoResult /\ IsSoft(sub_result'))
              => (has_exceeded' /\ pc' = "split_loop" /\ gi' = gi + 1)
        /\ (~has_exceeded /\ has_exceeded')
              => (sub_result = NoResult /\ IsSoft(sub_result'))
        /\ IsPrefix(chunks, chunks')
        /\ (sub_result = NoResult /\ sub_result'.kind = "Err" /\ ~IsSoft(sub_result'))
              => (pc' = "done" /\ result' = sub_result' /\ chunks' = chunks)
        /\ (pc = "split_loop" /\ pc' = "done")
              => /\ gi > Len(token_groups_in)
                 /\ result' = IF has_exceeded
                              THEN Err("SplitExceededTheLimit", chunks')
                              ELSE Ok(chunks')
                 /\ strip_tags(Concat(chunks')) = strip_tags(html)
      ]_vars

\* C8 witness: split returned SplitExceededTheLimit although the last group it
\* subdivided came back Ok, so a group after the oversized one was processed.
C8_Witness ==
    /\ SplitReturned
    /\ result.kind = "Err"
    /\ result.variant = "SplitExceededTheLimit"
    /\ sub_result.kind = "Ok"
    /\ Len(sub_result.value) >= 2

\* the byte length of tokens[i..j]
SpanLen(tokens, i, j) ==
    SumTo([k \in 1..(j - i + 1) |-> token_len(tokens[i + k - 1])], j - i + 1)

\* the byte length of the subtree opened at position i, open tag through close tag
OwnLen(tokens, i) == SpanLen(tokens, i, MatchClose(tokens, i))

\* the byte length of the subtree opened at position i together with the open
\* and close tags of every tag that encloses it
WrappedLen(tokens, i) ==
    LET j == MatchClose(tokens, i)
        encloses(k) == is_open(tokens[k]) /\ MatchClose(tokens, k) > j
    IN  OwnLen(tokens, i)
        + SumTo([k \in 1..(i - 1) |->
                    IF encloses(k)
                    THEN token_len(tokens[k]) + token_len(tokens[MatchClose(tokens, k)])
                    ELSE 0],
                i - 1)

\* every group of an Ok of subdivide is within the budget
OkWithinBudget ==
    sub_result.kind = "Ok" =>
        \A k \in 1..Len(sub_result.value) :
            /\ sub_result.value[k].len <= max_chunk_size
            /\ str_len(to_string(sub_result.value[k])) <= max_chunk_size

\* C9 as stated: subdivide returns SubdividedExceedingTheLimit only if the input
\* group has a no-split subtree whose own byte length, open tag through close
\* tag, exceeds max_chunk_size; otherwise every group returned is within it.
C9_OwnOversized ==
    /\ IsSoft(sub_result) =>
         \E i \in NoSplitOpens(self.tokens) :
            /\ MatchClose(self.tokens, i) > 0
            /\ OwnLen(self.tokens, i) > max_chunk_size
    /\ OkWithinBudget

\* C9 as amended: subdivide returns SubdividedExceedingTheLimit only if the
\* input group has a no-split subtree that, together with the open and close
\* tags of the tags enclosing it, is longer than max_chunk_size; never with an
\* empty no-split set; and every group of an Ok is within max_chunk_size.
C9_WrappedOversized ==
    /\ IsSoft(sub_result) =>
         \E i \in NoSplitOpens(self.tokens) :
            /\ MatchClose(self.tokens, i) > 0
            /\ WrappedLen(self.tokens, i) > max_chunk_size
    /\ no_split = {} => ~IsSoft(sub_result)
    /\ OkWithinBudget

\* C9 witness: subdivide returned SubdividedExceedingTheLimit with several
\* groups for a no-split subtree that fits the budget alone but not with the
\* tags around it.
C9_Witness ==
    /\ IsSoft(sub_result)
    /\ Len(sub_result.value) >= 2
    /\ \E k \in 1..Len(sub_result.value) : sub_result.value[k].len > max_chunk_size
    /\ \A i \in NoSplitOpens(self.tokens) :
          /\ MatchClose(self.tokens, i) > 0
          /\ OwnLen(self.tokens, i) <= max_chunk_size
          /\ WrappedLen(self.tokens, i) > max_chunk_size

HELLO == <<"H", "e", "l", "l", "o">>

\* subdivide was called on the group of from_string(text) and has returned
SubdivideReturnedOn(t) == html = t /\ mode = "subdivide" /\ pc = "done"

\* split has grouped the text t
SplitGrouped(t) == html = t /\ mode = "split" /\ pc # "start"

\* C10 as stated, on the input as printed, with the tags closed before the
\* text: one top-level group, SubdivisionImpossible below 54, success with the
\* text "Hello" from 54 upward.
C10_PrintedInput ==
    /\ SplitGrouped(SHORT_HTML_SPEC) =>
          /\ Len(token_groups_in) = 1
          /\ token_groups_in[1] = from_string(html).group
    /\ SubdivideReturnedOn(SHORT_HTML_SPEC) =>
          /\ max_chunk_size < 54 =>
                (result.kind = "Err" /\ result.variant = "SubdivisionImpossible")
          /\ max_chunk_size >= 54 =>
                /\ result.kind = "Ok"
                /\ strip_tags(Concat(groups_to_strings(result.value))) = HELLO

\* C10 as amended, on the input with the text inside the four tags: the
\* grouper yields one group, the group of from_string; subdivide returns
\* InvalidLen(0) for the budget 0, SubdivisionImpossible for every budget from
\* 1 to 53, and Ok from 54 upward with the tag-stripped concatenation "Hello".
C10_Threshold ==
    /\ SplitGrouped(SHORT_HTML) =>
          /\ Len(token_groups_in) = 1
          /\ token_groups_in[1] = from_string(html).group
    /\ SubdivideReturnedOn(SHORT_HTML) =>
          /\ max_chunk_size = 0 => result = Err("InvalidLen", 0)
          /\ max_chunk_size \in 1..53 =>
                (result.kind = "Err" /\ result.variant = "SubdivisionImpossible")
          /\ max_chunk_size >= 54 =>
                /\ result.kind = "Ok"
                /\ \A k \in 1..Len(result.value) : result.value[k].len <= max_chunk_size
                /\ strip_tags(Concat(groups_to_strings(result.value))) = HELLO

\* C10 witness: at the budget 54 subdivide returned one group for each
\* character of the text.
C10_Witness ==
    /\ SubdivideReturnedOn(SHORT_HTML)
    /\ max_chunk_size = 54
    /\ result.kind = "Ok"
    /\ Len(result.value) = Len(HELLO)

\* the group g is one open tag, a text of one character and a close tag
SingleCharGroup(g) ==
    /\ Len(g.tokens) = 3
    /\ is_open(g.tokens[1])
    /\ g.tokens[2].kind = "Text"
    /\ Len(as_text(g.tokens[2])) = 1
    /\ is_close(g.tokens[3])

\* C11: on a group of one open tag, a text of one character and the close tag,
\* subdivide with the empty no-split set returns an error for every budget
\* below the group's byte length, and at that length returns exactly one
\* group, the input, whose len is the input's length.
C11_SingleChar ==
    (/\ sub_result # NoResult
     /\ SingleCharGroup(self)
     /\ no_split = {}) =>
        /\ max_chunk_size < self.len => sub_result.kind = "Err"
        /\ max_chunk_size = self.len =>
              /\ sub_result.kind = "Ok"
              /\ Len(sub_result.value) = 1
              /\ sub_result.value[1].len = self.len
              /\ sub_result.value[1].tokens = self.tokens

\* C11 witness: a budget that leaves room beside the two tags, yet less than
\* the 4 bytes of the character, ended in SubdivisionImpossibleUnicode.
C11_Witness ==
    /\ sub_result.kind = "Err"
    /\ sub_result.variant = "SubdivisionImpossibleUnicode"
    /\ SingleCharGroup(self)
    /\ no_split = {}
    /\ len_utf8(as_text(self.tokens[2])[1]) = 4
    /\ max_chunk_size = self.len - 1

\* split_with_respect_to_whitespace has returned
SplitPosReturned == mode = "split_with_respect_to_whitespace" /\ pc = "done"

\* the longest prefix of s of at most b bytes that ends on a character boundary
BoundaryPrefix(s, b) == SubSeq(s, 1, chars_within(s, b))

\* the positions of the whitespace characters of s
WhitespaceAt(s) == { i \in 1..Len(s) : is_whitespace(s[i]) }

\* s up to and with its last whitespace character
UpToLastWhitespace(s) ==
    SubSeq(s, 1, CHOOSE i \in WhitespaceAt(s) : \A j \in WhitespaceAt(s) : j <= i)

\* C12: split_with_respect_to_whitespace(s, budget) returns s whole when
\* budget >= len(s); nothing when not even the first character fits; otherwise
\* the longest prefix of at most budget bytes on a character boundary, cut back
\* to just after its last whitespace; and when that prefix has no whitespace,
\* the first exactly budget bytes of s. The result is always a prefix of s of
\* at most budget bytes.
C12_WhitespacePrefix ==
    SplitPosReturned =>
        LET s == html
            b == max_chunk_size
            p == BoundaryPrefix(s, b)
        IN  /\ result.kind \in {"Some", "None"}
            /\ result.kind = "Some" =>
                  (IsPrefix(result.value, s) /\ str_len(result.value) <= b)
            /\ b >= str_len(s) => result = Some(s)
            /\ (b < str_len(s) /\ p = <<>>) => result = None
            /\ (b < str_len(s) /\ p # <<>> /\ WhitespaceAt(p) # {})
                  => result = Some(UpToLastWhitespace(p))
            /\ (b < str_len(s) /\ p # <<>> /\ WhitespaceAt(p) = {})
                  => (result.kind = "Some" /\ str_len(result.value) = b)

\* no open tag of tokens is directly followed by a close tag
NoEmptyPair(tokens) ==
    \A i \in 1..(Len(tokens) - 1) : ~(is_open(tokens[i]) /\ is_close(tokens[i + 1]))

\* C13: a TokenGroup never holds an open tag directly followed by a close tag:
\* not the group subdivide works on, not the one it builds, none it has
\* emitted or returns, none of the grouper; and no chunk split returns
\* contains an empty pair.
C13_NoEmptyPair ==
    /\ NoEmptyPair(self.tokens)
    /\ NoEmptyPair(tg.tokens)
    /\ \A i \in 1..Len(token_groups) : NoEmptyPair(token_groups[i].tokens)
    /\ \A i \in 1..Len(token_groups_in) : NoEmptyPair(token_groups_in[i].tokens)
    /\ CarriesOutput(sub_result) =>
          \A i \in 1..Len(sub_result.value) : NoEmptyPair(sub_result.value[i].tokens)
    /\ (SplitReturned /\ CarriesOutput(result)) =>
          \A i \in 1..Len(result.value) :
              NoEmptyPair(Tokenizer(result.value[i], 0).tokens)

\* C13 witness: the input has an empty pair, and split returned chunks of a
\* group that subdivide cut with its stack closed and re-opened.
C13_Witness ==
    /\ SplitReturned
    /\ CarriesOutput(result)
    /\ ~NoEmptyPair(Tokenizer(html, 0).tokens)
    /\ sub_result.kind = "Ok"
    /\ Len(sub_result.value) >= 2
    /\ is_open(sub_result.value[2].tokens[1])
    /\ is_close(Last(sub_result.value[1].tokens))

\* the tokens of the groups gs, in order
RECURSIVE tokens_of_groups(_)
tokens_of_groups(gs) ==
    IF gs = <<>> THEN <<>> ELSE Head(gs).tokens \o tokens_of_groups(Tail(gs))

\* split has just grouped a balanced text
GroupedBalanced == mode = "split" /\ last_op = "SplitCall" /\ IsBalancedString(html)

\* C14 as stated: for a balanced input the groups of prepare_token_groups hold
\* every token of the tokenizer exactly once and in order, and their
\* serializations concatenate to the input string.
C14_Partition ==
    GroupedBalanced =>
        /\ pc = "split_loop"
        /\ tokens_of_groups(token_groups_in) = Tokenizer(html, 0).tokens
        /\ Concat(groups_to_strings(token_groups_in)) = html

\* C14 as amended: for a balanced input prepare_token_groups succeeds, and its
\* groups hold, exactly once and in input order, every token of the tokenizer
\* that is not part of an empty tag pair; their serializations concatenate to
\* the input with its empty tag pairs elided, and each group is balanced with
\* len the byte length of its serialization.
C14_PartitionElided ==
    GroupedBalanced =>
        /\ pc = "split_loop"
        /\ tokens_of_groups(token_groups_in) = Elide(Tokenizer(html, 0).tokens)
        /\ Concat(groups_to_strings(token_groups_in)) = ElidedString(html)
        /\ \A i \in 1..Len(token_groups_in) :
              /\ IsBalanced(token_groups_in[i].tokens)
              /\ token_groups_in[i].len = str_len(to_string(token_groups_in[i]))

\* C14 witness: a balanced text of several top-level groups, one of them an
\* empty tag pair, another with tags around a text, was grouped.
C14_Witness ==
    /\ GroupedBalanced
    /\ Len(token_groups_in) >= 3
    /\ \E i \in 1..Len(token_groups_in) : token_groups_in[i].tokens = <<>>
    /\ \E i \in 1..Len(token_groups_in) : Len(token_groups_in[i].tokens) >= 3
    /\ Concat(groups_to_strings(token_groups_in)) # html

\* the byte lengths of the close tags that the map pairs with the tags of st
DebtOf(st, m) == SumTo([i \in 1..Len(st) |-> token_len(m[st[i]])], Len(st))

\* subdivide is inside its pass over a balanced group
InBalancedPass == pc \in {"sub_loop", "sub_text"} /\ IsBalanced(self.tokens)

\* future_close_len is the debt of the stack throughout the pass, and after a
\* pass that returned groups the stack is empty and the debt is 0
DebtInvariant ==
    /\ InBalancedPass =>
          /\ \A i \in 1..Len(stack) : stack[i] \in DOMAIN map
          /\ future_close_len = DebtOf(stack, map)
    /\ (CarriesOutput(sub_result) /\ IsBalanced(self.tokens)) =>
          (stack = <<>> /\ future_close_len = 0)

\* C15: on a balanced group future_close_len equals, at every iteration of
\* subdivide, the sum of the byte lengths of the close tags paired with the tags
\* on the stack; a no-split eject leaves the stack and the debt unchanged, a
\* text split too; and at the end of the pass the stack is empty and
\* future_close_len is 0.
C15_CloseDebt ==
    /\ []DebtInvariant
    /\ [][(InBalancedPass /\ last_op' \in {"OpenTagEject", "TextPeel", "TextWhole",
                                           "TextTooLong"})
            => (stack' = stack /\ future_close_len' = future_close_len)]_vars

\* C15 witness: inside an open tag, with its close tag owed, after a no-split
\* eject that emitted two groups.
C15_Witness ==
    /\ InBalancedPass
    /\ last_op = "OpenTagEject"
    /\ Len(stack) >= 1
    /\ future_close_len = DebtOf(stack, map)
    /\ future_close_len >= 4
    /\ Len(token_groups) >= 2

\* C16: for a balanced input and a budget of at least 1, at every point where
\* subdivide asserts it the group under construction is within the budget:
\* after an open tag is accepted (also right after a preemptive cut), after a
\* close tag is pushed, after a text is pushed whole, at the start of each
\* text-peeling step, after a text segment is pushed (the group as emitted
\* then), and at the end of the pass.
C16_AssertedSize ==
    (InBalancedPass /\ max_chunk_size >= 1) =>
        /\ (pc = "sub_loop" /\ last_op \in {"OpenTagAccept", "OpenTagCut", "CloseTag",
                                            "TextWhole"})
              => tg.len <= max_chunk_size
        /\ pc = "sub_text" => tg.len <= max_chunk_size
        /\ (last_op = "TextPeel" /\ token_groups # <<>>)
              => Last(token_groups).len <= max_chunk_size
        /\ (pc = "sub_loop" /\ index > Len(self.tokens) /\ stack = <<>>)
              => tg.len <= max_chunk_size

\* a step of subdivide's loops makes progress: a step of the outer loop moves
\* the token index forward or enters the text loop on the same token; a
\* no-split eject on a balanced group goes to the token after the matching
\* close tag; a step of the text loop takes a non-empty segment off text, and
\* moves on to the next token when nothing is left
LoopProgress ==
    /\ (pc = "sub_loop" /\ pc' = "sub_loop") => index' > index
    /\ (pc = "sub_loop" /\ pc' = "sub_text") =>
          (index' = index /\ text' # <<>> /\ last_op' = "TextTooLong")
    /\ (pc = "sub_loop" /\ pc' = "sub_loop" /\ last_op' = "OpenTagEject"
          /\ IsBalanced(self.tokens))
          => index' = MatchClose(self.tokens, index) + 1
    /\ (pc = "sub_text" /\ pc' = "sub_text") =>
          (index' = index /\ text' # <<>> /\ str_len(text') < str_len(text))
    /\ (pc = "sub_text" /\ pc' = "sub_loop") => (index' = index + 1 /\ text' = <<>>)
    /\ pc = "sub_text" => pc' # "sub_start"
    /\ index' <= Len(self.tokens) + 1

\* what is left to do, as a number that every step makes smaller: the groups
\* split has still to place, then the tokens subdivide has still to pass, then
\* the bytes of text still to peel
TextRank == 4 * Len(html) + 2
PassRank == (Len(html) + 3) * TextRank
SubdivideLeft ==
    CASE pc = "sub_start" -> (Len(self.tokens) + 2) * TextRank
      [] pc = "sub_loop"  -> (Len(self.tokens) + 1 - index) * TextRank + TextRank - 1
      [] pc = "sub_text"  -> (Len(self.tokens) + 1 - index) * TextRank + str_len(text)
      [] OTHER            -> PassRank - 1
WorkLeft ==
    CASE pc = "done"  -> 0
      [] pc = "start" -> (Len(html) + 3) * PassRank
      [] OTHER        -> (Len(token_groups_in) + 1 - gi) * PassRank + SubdivideLeft + 1

\* the guards of the steps: one of them holds wherever the call has not returned
CanStep ==
    \/ pc = "start" /\ mode \in {"split", "subdivide"}
    \/ /\ pc = "split_loop"
       /\ gi <= Len(token_groups_in)
       /\ \/ chunk_has_room(token_groups_in[gi])
          \/ ~chunk_has_room(token_groups_in[gi])
                /\ token_groups_in[gi].len <= max_chunk_size
          \/ ~chunk_has_room(token_groups_in[gi])
                /\ token_groups_in[gi].len > max_chunk_size
    \/ pc = "split_loop" /\ gi > Len(token_groups_in)
    \/ pc = "sub_start"
    \/ InLoop /\ is_open(self.tokens[index]) /\ self.tokens[index] \notin DOMAIN map
    \/ /\ InLoop
       /\ is_open(self.tokens[index])
       /\ self.tokens[index] \in DOMAIN map
       /\ NoSplitTooLong(self.tokens[index]) \/ ~NoSplitTooLong(self.tokens[index])
    \/ InLoop /\ is_close(self.tokens[index])
    \/ /\ InLoop
       /\ self.tokens[index].kind = "Text"
       /\ text_fits(self.tokens[index]) \/ ~text_fits(self.tokens[index])
    \/ pc = "sub_text" /\ text # <<>> /\ index <= Len(self.tokens)
    \/ pc = "sub_loop" /\ index > Len(self.tokens)

\* no call stops anywhere but at its return, and every step leaves less to do
RunsToReturn ==
    /\ [](pc = "done" \/ CanStep)
    /\ [][WorkLeft' < WorkLeft /\ WorkLeft' >= 0]_vars

C18_NoEmptyOutput ==
    /\ CarriesOutput(sub_result) =>
          \A i \in 1..Len(sub_result.value) : sub_result.value[i].tokens # <<>>
    /\ (SplitReturned /\ CarriesOutput(result)) =>
          \A i \in 1..Len(result.value) : result.value[i] # <<>>

====
